---- MODULE Spec2Model ----
(***************************************************************************)
(* A model of subpiper (src/subpiper/subpiper.py): one run of _SubPiper,   *)
(* made of the calling thread (execute), the child process behind Popen,   *)
(* the two listener threads (_enqueue_lines) and the supervisory loop      *)
(* (_wait_for_process / _handle_lines), which runs on the calling thread   *)
(* in blocking mode and on wait_thread otherwise.                          *)
(*                                                                         *)
(* A string is a tuple of characters.  A queue item carries, next to its   *)
(* text, the index of the child's line it was read from (idx, 0 for an     *)
(* item that was read at end-of-stream); the code never looks at idx, the  *)
(* properties do.                                                          *)
(*                                                                         *)
(* A second, coarser part models two runs side by side (TwoRunSpec): the   *)
(* objects each _SubPiper instance creates and the references it keeps to  *)
(* them, with the stdout stream only.                                      *)
(***************************************************************************)
EXTENDS Integers, Sequences, FiniteSets, TLC

\* Bounds of the model.
MaxLines == 2      \* lines the child writes, both streams together
MaxEofPuts == 1    \* items the listeners put after end-of-stream, both together
MaxPaths == 2      \* entries of add_path_list

Streams == {"out", "err"}
ExitCodes == {0, 1}
\* Line contents the child may write: a line of text, and a line holding only
\* a blank (which rstrip() turns into the empty str, as it does an empty line).
Contents == {<<"x">>, <<" ">>}
Terminator == <<"\n">>
Whitespace == {" ", "\n"}

\* The commands: the empty str, the empty list, and a command to launch.
EmptyStr == [type |-> "str", val |-> <<>>]
EmptyList == [type |-> "list", val |-> <<>>]
Commands == {EmptyStr, EmptyList, [type |-> "list", val |-> <<"sh">>]}

\* platform.system(), the directories of add_path_list, and os.environ["PATH"].
Platforms == {"Linux", "Windows"}
Dirs == {"/a", "/b"}
OriginalPath == <<"/usr/bin">>

\* The runs of the two-run part.
Runs == {1, 2}

\* An absent callback, and the value poll() gives while the child runs.
NoCallback == "None"
NoneCode == <<>>

VARIABLES
    cmd,               \* self.cmd
    add_path_list,     \* self.add_path_list
    platform,          \* platform.system()
    local_env,         \* local_env["PATH"], a sequence of tokens
    path_i,            \* entries of add_path_list the for loop has taken
    stdout_callback,   \* self.stdout_callback: NoCallback or a callback
    stderr_callback,   \* self.stderr_callback
    finished_callback, \* self.finished_callback
    silent,            \* self.silent
    proc,              \* self.proc: "none", "running", "exited", "failed"
    exit_status,       \* the child's real exit code, once it has exited
    written,           \* per stream, the lines the child has written
    read_count,        \* per stream, lines the listener has read and put
    eof_puts,          \* per stream, items put after end-of-stream
    listener,          \* per stream: "unstarted", "reading", "closed"
    queue,             \* self.out_queue / self.err_queue
    buffer,            \* self._stdout_buffer / self._stderr_buffer
    instances,         \* per run started, its _SubPiper: position and references
    queues,            \* the Queue objects created so far, by identity
    lists,             \* the list objects created so far, by identity
    children,          \* the child processes spawned so far, by identity
    got,               \* per run, the lines passed to its stdout_callback
    results,           \* per run, what subpiper gave its caller
    caller_pc,         \* where execute() is on the calling thread
    result,            \* what subpiper gave its caller
    sup_thread,        \* the thread that runs _wait_for_process
    sup_pc,            \* where _wait_for_process is
    oeline,            \* the locals of _handle_lines: oline and eline
    retcode,           \* the local of _wait_for_process
    calls,             \* per stream, the calls made to the line callback
    printed,           \* per stream, the lines printed to sys.stdout/stderr
    finished_calls,    \* the calls made to finished_callback
    in_progress,       \* the user callbacks that are executing
    enqueued_at_exit   \* per stream, read_count when poll() gave the exit code

vars == <<cmd, add_path_list, platform, local_env, path_i, stdout_callback,
          stderr_callback, finished_callback, silent, proc, instances, queues,
          lists, children, got, results,
          exit_status, written, read_count, eof_puts, listener, queue, buffer,
          caller_pc, result, sup_thread, sup_pc, oeline, retcode, calls,
          printed, finished_calls, in_progress, enqueued_at_exit>>

args == <<cmd, add_path_list, platform, stdout_callback, stderr_callback,
          finished_callback, silent>>
env == <<local_env, path_i>>
child == <<proc, exit_status, written>>
listeners == <<read_count, eof_puts, listener>>
caller == <<caller_pc, result>>
locals == <<oeline, retcode>>
sinks == <<calls, printed, finished_calls, in_progress>>
pair == <<instances, queues, lists, children, got, results>>
single == <<args, env, child, listeners, queue, buffer, caller, sup_thread, sup_pc,
            locals, sinks, enqueued_at_exit>>

----------------------------------------------------------------------------
\* str.rstrip(): the string without its trailing whitespace.
RECURSIVE rstrip(_)
rstrip(s) ==
    IF s = <<>> THEN <<>>
    ELSE IF s[Len(s)] \in Whitespace THEN rstrip(SubSeq(s, 1, Len(s) - 1))
    ELSE s

\* The empty str of "'' if queue.empty() else ..." and of readline() at EOF.
EmptyItem == [text |-> <<>>, idx |-> 0]

\* iter(out.readline, b''): the sentinel is bytes, the pipe is a text stream.
Sentinel == [kind |-> "bytes", chars |-> <<>>]

\* out.readline() on the text-mode pipe: the next line, or '' at end-of-stream.
readline(s) ==
    IF read_count[s] < Len(written[s])
    THEN [kind |-> "str", chars |-> written[s][read_count[s] + 1]]
    ELSE [kind |-> "str", chars |-> <<>>]

\* Python's truth value of a str.
Truthy(item) == item.text # <<>>

\* any(queue.queue): some item of the deque is a non-empty str.
any(q) == \E i \in 1..Len(q) : Truthy(q[i])

\* "if self.finished_callback is None": the blocking call.
BlockingMode == finished_callback = NoCallback

\* The line callback of a stream.
callback(s) == IF s = "out" THEN stdout_callback ELSE stderr_callback

\* A run that has not been started, a process handle that is None, and the
\* result of a call that has not returned.
NoInstance == [pc |-> "none", out_queue |-> 0, stdout_buffer |-> 0, proc |-> 0]
NoChild == [state |-> "none", code |-> NoneCode, count |-> 0, pipe |-> <<>>]
NoResult == [kind |-> "unset", retcode |-> NoneCode, out |-> <<>>]

\* The instance, the callback's lines and the result of a run.
Inst(r) == IF r \in DOMAIN instances THEN instances[r] ELSE NoInstance
Got(r) == IF r \in DOMAIN got THEN got[r] ELSE <<>>
Result(r) == IF r \in DOMAIN results THEN results[r] ELSE NoResult

\* The identity of a newly created object: the next one.
Fresh(objects) == Len(objects) + 1

----------------------------------------------------------------------------
\* _SubPiper.__init__ and the copy of os.environ that execute() starts from.
InitWith(path_lists, platforms) ==
    /\ cmd \in Commands
    /\ add_path_list \in path_lists
    /\ platform \in platforms
    /\ local_env = OriginalPath
    /\ path_i = 0
    /\ stdout_callback \in {NoCallback, "stdout_callback"}
    /\ stderr_callback \in {NoCallback, "stderr_callback"}
    /\ finished_callback \in {NoCallback, "finished_callback"}
    \* every pair (callback given or not, silent or not) for each stream
    /\ silent = ((stdout_callback = NoCallback) # (stderr_callback = NoCallback))
    /\ proc = "none"
    /\ exit_status = NoneCode
    /\ written = [s \in Streams |-> <<>>]
    /\ read_count = [s \in Streams |-> 0]
    /\ eof_puts = [s \in Streams |-> 0]
    /\ listener = [s \in Streams |-> "unstarted"]
    /\ queue = [s \in Streams |-> <<>>]
    /\ buffer = [s \in Streams |-> <<>>]
    /\ caller_pc = "created"
    /\ result = [kind |-> "unset", error |-> "none", retcode |-> NoneCode,
                 out |-> <<>>, err |-> <<>>]
    /\ sup_thread = "none"
    /\ sup_pc = "idle"
    /\ oeline = [s \in Streams |-> EmptyItem]
    /\ retcode = NoneCode
    /\ calls = [s \in Streams |-> <<>>]
    /\ printed = [s \in Streams |-> <<>>]
    /\ finished_calls = <<>>
    /\ in_progress = {}
    /\ enqueued_at_exit = [s \in Streams |-> 0]
    /\ instances = <<>>
    /\ queues = <<>>
    /\ lists = <<>>
    /\ children = <<>>
    /\ got = <<>>
    /\ results = <<>>

\* A run with the default add_path_list, ().
Init == InitWith({<<>>}, {"Linux"})

----------------------------------------------------------------------------
\* execute(): one turn of "for add_path in self.add_path_list":
\* local_env["PATH"] = rf'{add_path};{local_env["PATH"]}'.
AddPath ==
    /\ caller_pc = "created"
    /\ path_i < Len(add_path_list)
    /\ local_env' = <<add_path_list[path_i + 1], ";">> \o local_env
    /\ path_i' = path_i + 1
    /\ UNCHANGED <<args, pair, child, listeners, queue, buffer, caller, sup_thread,
                   sup_pc, locals, sinks, enqueued_at_exit>>

\* The exception subprocess.Popen raises (on POSIX) for a command.
PopenError(c) ==
    IF c = EmptyStr THEN "PermissionError"
    ELSE IF c = EmptyList THEN "IndexError"
    ELSE "FileNotFoundError"

\* A faulty variant of Popen: with shell=True the empty command is handed to
\* the shell, which runs it.
PopenShell ==
    /\ caller_pc = "created"
    /\ path_i = Len(add_path_list)
    /\ proc' = "running"
    /\ caller_pc' = "spawned"
    /\ UNCHANGED <<args, env, pair, exit_status, written, listeners, queue, buffer, result,
                   sup_thread, sup_pc, locals, sinks, enqueued_at_exit>>

\* execute(): subprocess.Popen succeeds and the child runs.
Popen ==
    /\ caller_pc = "created"
    /\ path_i = Len(add_path_list)
    /\ cmd.val # <<>>
    /\ proc' = "running"
    /\ caller_pc' = "spawned"
    /\ UNCHANGED <<args, env, pair, exit_status, written, listeners, queue, buffer, result,
                   sup_thread, sup_pc, locals, sinks, enqueued_at_exit>>

\* A faulty variant of PopenRaises: the child is spawned by the wait thread, so that in
\* non-blocking mode the failure surfaces there, after execute() has returned.
PopenRaisesDeferred ==
    /\ caller_pc = "created"
    /\ path_i = Len(add_path_list)
    /\ proc' = "failed"
    /\ IF BlockingMode
       THEN /\ caller_pc' = "raised"
            /\ result' = [result EXCEPT !.kind = "raise", !.error = PopenError(cmd)]
            /\ UNCHANGED sup_thread
       ELSE /\ caller_pc' = "returned"
            /\ result' = [result EXCEPT !.kind = "None"]
            /\ sup_thread' = "wait_thread"
    /\ UNCHANGED <<args, env, pair, exit_status, written, listeners, queue, buffer,
                   sup_pc, locals, sinks, enqueued_at_exit>>

\* execute(): subprocess.Popen raises; the exception leaves execute().
PopenRaises ==
    /\ caller_pc = "created"
    /\ path_i = Len(add_path_list)
    /\ proc' = "failed"
    /\ caller_pc' = "raised"
    /\ result' = [result EXCEPT !.kind = "raise", !.error = PopenError(cmd)]
    /\ UNCHANGED <<args, env, pair, exit_status, written, listeners, queue, buffer,
                   sup_thread, sup_pc, locals, sinks, enqueued_at_exit>>

\* execute(): out_listener.start(); err_listener.start().
StartListeners ==
    /\ caller_pc = "spawned"
    /\ listener' = [s \in Streams |-> "reading"]
    /\ caller_pc' = "listening"
    /\ UNCHANGED <<args, env, pair, child, read_count, eof_puts, queue, buffer, result,
                   sup_thread, sup_pc, locals, sinks, enqueued_at_exit>>

\* execute(), finished_callback is None: _wait_for_process() on this thread.
WaitBlocking ==
    /\ caller_pc = "listening"
    /\ finished_callback = NoCallback
    /\ caller_pc' = "waiting"
    /\ sup_thread' = "caller"
    /\ sup_pc' = "out_empty"
    /\ UNCHANGED <<args, env, pair, child, listeners, queue, buffer, result, locals, sinks,
                   enqueued_at_exit>>

\* execute(), blocking: return retcode, self._stdout_buffer, self._stderr_buffer.
ReturnBlocking ==
    /\ caller_pc = "waiting"
    /\ sup_pc = "done"
    /\ caller_pc' = "returned"
    /\ result' = [kind |-> "tuple", error |-> "none", retcode |-> retcode,
                  out |-> buffer["out"], err |-> buffer["err"]]
    /\ UNCHANGED <<args, env, pair, child, listeners, queue, buffer, sup_thread, sup_pc,
                   locals, sinks, enqueued_at_exit>>

\* A faulty variant of ReturnNonBlocking: Thread(target=self._wait_for_process()), the
\* target called where it should be passed, runs the loop on the calling thread.
ReturnNonBlockingCalled ==
    /\ caller_pc = "listening"
    /\ finished_callback # NoCallback
    /\ caller_pc' = "waiting"
    /\ sup_thread' = "caller"
    /\ sup_pc' = "out_empty"
    /\ UNCHANGED <<args, env, pair, child, listeners, queue, buffer, result, locals, sinks,
                   enqueued_at_exit>>

\* execute(), finished_callback given: wait_thread.start(); return None.
ReturnNonBlocking ==
    /\ caller_pc = "listening"
    /\ finished_callback # NoCallback
    /\ caller_pc' = "returned"
    /\ result' = [result EXCEPT !.kind = "None"]
    /\ sup_thread' = "wait_thread"
    /\ sup_pc' = "out_empty"
    /\ UNCHANGED <<args, env, pair, child, listeners, queue, buffer, locals, sinks,
                   enqueued_at_exit>>

----------------------------------------------------------------------------
\* The child writes one line, terminator included, to one of its pipes.
ChildWrite(s, c) ==
    /\ proc = "running"
    /\ Len(written["out"]) + Len(written["err"]) < MaxLines
    /\ written' = [written EXCEPT ![s] = Append(@, c \o Terminator)]
    /\ UNCHANGED <<args, env, pair, proc, exit_status, listeners, queue, buffer, caller,
                   sup_thread, sup_pc, locals, sinks, enqueued_at_exit>>

\* The child exits; its ends of the pipes close.
ChildExit(code) ==
    /\ proc = "running"
    /\ proc' = "exited"
    /\ exit_status' = <<code>>
    /\ UNCHANGED <<args, env, pair, written, listeners, queue, buffer, caller, sup_thread,
                   sup_pc, locals, sinks, enqueued_at_exit>>

\* A faulty variant of poll: the exit code is read as a flag, and 0 comes back.
pollFlag == IF proc = "exited" THEN <<0>> ELSE NoneCode

\* proc.poll(): None while the child runs, then its exit code.
poll == IF proc = "exited" THEN exit_status ELSE NoneCode

----------------------------------------------------------------------------
\* A faulty variant of EnqueueLine: the listener hands the line to the user callback
\* itself instead of putting it on the queue.
EnqueueLineCallsBack(s) ==
    /\ listener[s] = "reading"
    /\ read_count[s] < Len(written[s])
    /\ callback(s) # NoCallback
    /\ calls' = [calls EXCEPT ![s] =
          Append(@, [text |-> rstrip(written[s][read_count[s] + 1]),
                     idx |-> read_count[s] + 1, thread |-> s])]
    /\ in_progress' = in_progress \cup {[cb |-> callback(s), thread |-> s]}
    /\ read_count' = [read_count EXCEPT ![s] = @ + 1]
    /\ UNCHANGED <<args, env, pair, child, eof_puts, listener, queue, buffer, caller,
                   sup_thread, sup_pc, locals, printed, finished_calls,
                   enqueued_at_exit>>

\* _enqueue_lines: one turn of "for line in iter(out.readline, b'')":
\* readline() blocks until a line is there or the pipe is at end-of-stream;
\* the loop ends when readline() gives the sentinel, else puts line.rstrip().
EnqueueLine(s) ==
    /\ listener[s] = "reading"
    /\ LET avail == read_count[s] < Len(written[s])
           line == readline(s)
       IN /\ avail \/ (proc = "exited" /\ eof_puts["out"] + eof_puts["err"] < MaxEofPuts)
          /\ IF line = Sentinel
             THEN /\ listener' = [listener EXCEPT ![s] = "closed"]
                  /\ UNCHANGED <<queue, read_count, eof_puts>>
             ELSE /\ queue' = [queue EXCEPT ![s] =
                        Append(@, [text |-> rstrip(line.chars),
                                   idx |-> IF avail THEN read_count[s] + 1 ELSE 0])]
                  /\ read_count' = [read_count EXCEPT ![s] = IF avail THEN @ + 1 ELSE @]
                  /\ eof_puts' = [eof_puts EXCEPT ![s] = IF avail THEN @ ELSE @ + 1]
                  /\ UNCHANGED listener
    /\ UNCHANGED <<args, env, pair, child, buffer, caller, sup_thread, sup_pc, locals, sinks,
                   enqueued_at_exit>>

----------------------------------------------------------------------------
\* Where _handle_lines goes next.
PcEmpty(s) == IF s = "out" THEN "out_empty" ELSE "err_empty"
PcGet(s) == IF s = "out" THEN "out_get" ELSE "err_get"
PcDispatch(s) == IF s = "out" THEN "out_dispatch" ELSE "err_dispatch"
PcCallback(s) == IF s = "out" THEN "out_callback" ELSE "err_callback"
AfterGet(s) == IF s = "out" THEN "err_empty" ELSE "out_dispatch"
\* A faulty variant of AfterDispatch: "elif eline:", which skips the stderr line
\* of a pass that had a stdout line.
AfterDispatchElif(s) ==
    IF s = "out" /\ ~Truthy(oeline["out"]) THEN "err_dispatch"
    ELSE IF retcode = NoneCode THEN "poll" ELSE "check_out_empty"

\* After the stderr line _handle_lines returns: to poll() in the outer loop,
\* to the emptiness checks in the inner one.
AfterDispatch(s) ==
    IF s = "out" THEN "err_dispatch"
    ELSE IF retcode = NoneCode THEN "poll" ELSE "check_out_empty"

\* oline and eline once a line is handled: _handle_lines returns after the
\* stderr line, and its locals are gone.
LocalsAfter(s) == IF s = "out" THEN oeline ELSE [t \in Streams |-> EmptyItem]

\* A faulty variant of QueueEmpty: "oline = self.out_queue.get_nowait()", the get
\* without the emptiness test.
QueueEmptyUnchecked(s) ==
    /\ sup_pc = PcEmpty(s)
    /\ sup_pc' = PcGet(s)
    /\ UNCHANGED <<args, env, pair, child, listeners, queue, buffer, caller, sup_thread,
                   locals, sinks, enqueued_at_exit>>

\* _handle_lines: "'' if queue.empty() else ...": the emptiness test.
QueueEmpty(s) ==
    /\ sup_pc = PcEmpty(s)
    /\ IF queue[s] = <<>>
       THEN /\ oeline' = [oeline EXCEPT ![s] = EmptyItem]
            /\ sup_pc' = AfterGet(s)
       ELSE /\ sup_pc' = PcGet(s)
            /\ UNCHANGED oeline
    /\ UNCHANGED <<args, env, pair, child, listeners, queue, buffer, caller, sup_thread,
                   retcode, sinks, enqueued_at_exit>>

\* A faulty variant of GetNowait: a LifoQueue, whose get gives the newest item.
GetNowaitLifo(s) ==
    /\ sup_pc = PcGet(s)
    /\ queue[s] # <<>>
    /\ oeline' = [oeline EXCEPT ![s] = queue[s][Len(queue[s])]]
    /\ queue' = [queue EXCEPT ![s] = SubSeq(@, 1, Len(@) - 1)]
    /\ sup_pc' = AfterGet(s)
    /\ UNCHANGED <<args, env, pair, child, listeners, buffer, caller, sup_thread, retcode,
                   sinks, enqueued_at_exit>>

\* _handle_lines: queue.get_nowait(), which raises Empty on an empty queue.
GetNowait(s) ==
    /\ sup_pc = PcGet(s)
    /\ IF queue[s] = <<>>
       THEN /\ sup_pc' = "raised_empty"
            /\ UNCHANGED <<oeline, queue>>
       ELSE /\ oeline' = [oeline EXCEPT ![s] = Head(queue[s])]
            /\ queue' = [queue EXCEPT ![s] = Tail(@)]
            /\ sup_pc' = AfterGet(s)
    /\ UNCHANGED <<args, env, pair, child, listeners, buffer, caller, sup_thread, retcode,
                   sinks, enqueued_at_exit>>

\* A faulty variant of BufferAppend: the stderr branch, copied from the stdout branch,
\* still appends to self._stdout_buffer.
BufferAppendStdout(s) == [buffer EXCEPT !["out"] = Append(@, oeline[s].text)]

\* self._stdout_buffer.append(oline) / self._stderr_buffer.append(eline).
BufferAppend(s) == [buffer EXCEPT ![s] = Append(@, oeline[s].text)]

\* A faulty variant of Dispatch: "if oline is not None:", which takes the empty
\* str for a line.
DispatchNotNone(s) ==
    /\ sup_pc = PcDispatch(s)
    /\ buffer' = BufferAppend(s)
    /\ IF callback(s) # NoCallback
       THEN /\ calls' = [calls EXCEPT ![s] =
                  Append(@, [text |-> oeline[s].text, idx |-> oeline[s].idx,
                             thread |-> sup_thread])]
            /\ in_progress' = in_progress \cup
                  {[cb |-> callback(s), thread |-> sup_thread]}
            /\ sup_pc' = PcCallback(s)
            /\ UNCHANGED printed
       ELSE /\ printed' = [printed EXCEPT ![s] =
                  IF silent THEN @ ELSE Append(@, oeline[s].text)]
            /\ sup_pc' = AfterDispatch(s)
            /\ UNCHANGED <<calls, in_progress>>
    /\ oeline' = LocalsAfter(s)
    /\ UNCHANGED <<args, env, pair, child, listeners, queue, caller, sup_thread, retcode,
                   finished_calls, enqueued_at_exit>>

\* A faulty variant of Dispatch: the print is not under the else of the callback
\* test, so a line that went to the callback is printed as well unless silent.
DispatchPrintsToo(s) ==
    /\ sup_pc = PcDispatch(s)
    /\ IF Truthy(oeline[s])
       THEN /\ buffer' = BufferAppend(s)
            /\ printed' = [printed EXCEPT ![s] =
                  IF silent THEN @ ELSE Append(@, oeline[s].text)]
            /\ IF callback(s) # NoCallback
               THEN /\ calls' = [calls EXCEPT ![s] =
                          Append(@, [text |-> oeline[s].text, idx |-> oeline[s].idx,
                                     thread |-> sup_thread])]
                    /\ in_progress' = in_progress \cup
                          {[cb |-> callback(s), thread |-> sup_thread]}
                    /\ sup_pc' = PcCallback(s)
               ELSE /\ sup_pc' = AfterDispatch(s)
                    /\ UNCHANGED <<calls, in_progress>>
       ELSE /\ sup_pc' = AfterDispatch(s)
            /\ UNCHANGED <<buffer, calls, printed, in_progress>>
    /\ oeline' = LocalsAfter(s)
    /\ UNCHANGED <<args, env, pair, child, listeners, queue, caller, sup_thread, retcode,
                   finished_calls, enqueued_at_exit>>

\* _handle_lines: "if oline:" / "if eline:": buffer the line, then call the
\* user callback, or print the line unless silent.
Dispatch(s) ==
    /\ sup_pc = PcDispatch(s)
    /\ IF Truthy(oeline[s])
       THEN /\ buffer' = BufferAppend(s)
            /\ IF callback(s) # NoCallback
               THEN /\ calls' = [calls EXCEPT ![s] =
                          Append(@, [text |-> oeline[s].text, idx |-> oeline[s].idx,
                                     thread |-> sup_thread])]
                    /\ in_progress' = in_progress \cup
                          {[cb |-> callback(s), thread |-> sup_thread]}
                    /\ sup_pc' = PcCallback(s)
                    /\ UNCHANGED printed
               ELSE /\ printed' = [printed EXCEPT ![s] =
                          IF silent THEN @ ELSE Append(@, oeline[s].text)]
                    /\ sup_pc' = AfterDispatch(s)
                    /\ UNCHANGED <<calls, in_progress>>
       ELSE /\ sup_pc' = AfterDispatch(s)
            /\ UNCHANGED <<buffer, calls, printed, in_progress>>
    /\ oeline' = LocalsAfter(s)
    /\ UNCHANGED <<args, env, pair, child, listeners, queue, caller, sup_thread, retcode,
                   finished_calls, enqueued_at_exit>>

\* The line callback returns to _handle_lines.
CallbackReturn(s) ==
    /\ sup_pc = PcCallback(s)
    /\ in_progress' = in_progress \ {[cb |-> callback(s), thread |-> sup_thread]}
    /\ sup_pc' = AfterDispatch(s)
    /\ UNCHANGED <<args, env, pair, child, listeners, queue, buffer, caller, sup_thread,
                   locals, calls, printed, finished_calls, enqueued_at_exit>>

\* A faulty variant of Poll: "retcode = self.proc.poll() or None", which takes
\* the exit code 0 for a child that still runs.
PollTruthy ==
    /\ sup_pc = "poll"
    /\ LET code == IF poll = <<0>> THEN NoneCode ELSE poll
       IN /\ retcode' = code
          /\ IF code = NoneCode
             THEN /\ sup_pc' = "out_empty"
                  /\ UNCHANGED enqueued_at_exit
             ELSE /\ sup_pc' = "sleep"
                  /\ enqueued_at_exit' = read_count
    /\ UNCHANGED <<args, env, pair, child, listeners, queue, buffer, caller, sup_thread,
                   oeline, sinks>>

\* A faulty variant of Poll: finished_callback(retcode) is called where the exit
\* code is seen, ahead of the inner loop.
PollCallsFinished ==
    /\ sup_pc = "poll"
    /\ retcode' = poll
    /\ IF poll = NoneCode
       THEN /\ sup_pc' = "out_empty"
            /\ UNCHANGED <<enqueued_at_exit, finished_calls>>
       ELSE /\ sup_pc' = "sleep"
            /\ enqueued_at_exit' = read_count
            /\ finished_calls' =
                  IF finished_callback # NoCallback
                  THEN Append(finished_calls, [retcode |-> poll, thread |-> sup_thread])
                  ELSE finished_calls
    /\ UNCHANGED <<args, env, pair, child, listeners, queue, buffer, caller, sup_thread,
                   oeline, calls, printed, in_progress>>

\* A faulty variant of Poll: the outer loop breaks as soon as the exit code is
\* seen, without the inner loop.
PollNoDrain ==
    /\ sup_pc = "poll"
    /\ retcode' = poll
    /\ IF poll = NoneCode
       THEN /\ sup_pc' = "out_empty"
            /\ UNCHANGED enqueued_at_exit
       ELSE /\ sup_pc' = "finish"
            /\ enqueued_at_exit' = read_count
    /\ UNCHANGED <<args, env, pair, child, listeners, queue, buffer, caller, sup_thread,
                   oeline, sinks>>

\* _wait_for_process: retcode = self.proc.poll(); on an exit code the inner
\* loop starts.
Poll ==
    /\ sup_pc = "poll"
    /\ retcode' = poll
    /\ IF poll = NoneCode
       THEN /\ sup_pc' = "out_empty"
            /\ UNCHANGED enqueued_at_exit
       ELSE /\ sup_pc' = "sleep"
            /\ enqueued_at_exit' = read_count
    /\ UNCHANGED <<args, env, pair, child, listeners, queue, buffer, caller, sup_thread,
                   oeline, sinks>>

\* _wait_for_process, inner loop: time.sleep(0.001), then _handle_lines().
Sleep ==
    /\ sup_pc = "sleep"
    /\ sup_pc' = "out_empty"
    /\ UNCHANGED <<args, env, pair, child, listeners, queue, buffer, caller, sup_thread,
                   locals, sinks, enqueued_at_exit>>

\* "if self.out_queue.empty() and self.err_queue.empty(): break", left operand.
CheckOutEmpty ==
    /\ sup_pc = "check_out_empty"
    /\ sup_pc' = IF queue["out"] = <<>> THEN "check_err_empty" ELSE "check_out_any"
    /\ UNCHANGED <<args, env, pair, child, listeners, queue, buffer, caller, sup_thread,
                   locals, sinks, enqueued_at_exit>>

\* The same test, right operand: both empty breaks the inner and outer loop.
CheckErrEmpty ==
    /\ sup_pc = "check_err_empty"
    /\ sup_pc' = IF queue["err"] = <<>> THEN "finish" ELSE "check_out_any"
    /\ UNCHANGED <<args, env, pair, child, listeners, queue, buffer, caller, sup_thread,
                   locals, sinks, enqueued_at_exit>>

\* "if not any(self.out_queue.queue) or not any(self.err_queue.queue): break",
\* left operand.
CheckOutAny ==
    /\ sup_pc = "check_out_any"
    /\ sup_pc' = IF ~any(queue["out"]) THEN "finish" ELSE "check_err_any"
    /\ UNCHANGED <<args, env, pair, child, listeners, queue, buffer, caller, sup_thread,
                   locals, sinks, enqueued_at_exit>>

\* The same test, right operand; when it does not break, the inner loop repeats.
CheckErrAny ==
    /\ sup_pc = "check_err_any"
    /\ sup_pc' = IF ~any(queue["err"]) THEN "finish" ELSE "sleep"
    /\ UNCHANGED <<args, env, pair, child, listeners, queue, buffer, caller, sup_thread,
                   locals, sinks, enqueued_at_exit>>

\* A faulty variant of Finish: "if self.finished_callback is not None and not retcode",
\* which reports only a child that exited with 0.
FinishOnSuccess ==
    /\ sup_pc = "finish"
    /\ IF finished_callback # NoCallback /\ retcode = <<0>>
       THEN /\ finished_calls' = Append(finished_calls,
                                        [retcode |-> retcode, thread |-> sup_thread])
            /\ in_progress' = in_progress \cup
                  {[cb |-> finished_callback, thread |-> sup_thread]}
            /\ sup_pc' = "finished_callback"
       ELSE /\ sup_pc' = "done"
            /\ UNCHANGED <<finished_calls, in_progress>>
    /\ UNCHANGED <<args, env, pair, child, listeners, queue, buffer, caller, sup_thread,
                   locals, calls, printed, enqueued_at_exit>>

\* _wait_for_process: "if self.finished_callback is not None:
\* self.finished_callback(retcode)", else straight to "return retcode".
Finish ==
    /\ sup_pc = "finish"
    /\ IF finished_callback # NoCallback
       THEN /\ finished_calls' = Append(finished_calls,
                                        [retcode |-> retcode, thread |-> sup_thread])
            /\ in_progress' = in_progress \cup
                  {[cb |-> finished_callback, thread |-> sup_thread]}
            /\ sup_pc' = "finished_callback"
       ELSE /\ sup_pc' = "done"
            /\ UNCHANGED <<finished_calls, in_progress>>
    /\ UNCHANGED <<args, env, pair, child, listeners, queue, buffer, caller, sup_thread,
                   locals, calls, printed, enqueued_at_exit>>

\* finished_callback returns; _wait_for_process returns retcode.
FinishedReturn ==
    /\ sup_pc = "finished_callback"
    /\ in_progress' = in_progress \ {[cb |-> finished_callback, thread |-> sup_thread]}
    /\ sup_pc' = "done"
    /\ UNCHANGED <<args, env, pair, child, listeners, queue, buffer, caller, sup_thread,
                   locals, calls, printed, finished_calls, enqueued_at_exit>>

----------------------------------------------------------------------------
Execute ==
    \/ Popen
    \/ PopenRaises
    \/ StartListeners
    \/ WaitBlocking
    \/ ReturnBlocking
    \/ ReturnNonBlocking

Child ==
    \/ \E s \in Streams, c \in Contents : ChildWrite(s, c)
    \/ \E code \in ExitCodes : ChildExit(code)

Listeners == \E s \in Streams : EnqueueLine(s)

HandleLines ==
    \E s \in Streams :
        \/ QueueEmpty(s)
        \/ GetNowait(s)
        \/ Dispatch(s)
        \/ CallbackReturn(s)

WaitForProcess ==
    \/ HandleLines
    \/ Poll
    \/ Sleep
    \/ CheckOutEmpty
    \/ CheckErrEmpty
    \/ CheckOutAny
    \/ CheckErrAny
    \/ Finish
    \/ FinishedReturn

Next == Execute \/ Child \/ Listeners \/ WaitForProcess

Spec == Init /\ [][Next]_vars

\* The start of execute() for every add_path_list and platform: the for loop
\* over add_path_list and the call of Popen.
PathLists == UNION {[1..n -> Dirs] : n \in 0..MaxPaths}
PathInit == InitWith(PathLists, Platforms)
PathNext == AddPath \/ Popen \/ PopenRaises
PathSpec == PathInit /\ [][PathNext]_vars

\* The runs with both line callbacks given, in which the calling thread and
\* the thread of the supervisory loop are scheduled fairly and user callbacks
\* return.  Nothing is assumed of the child or of the listeners.
FairInit == Init /\ stdout_callback # NoCallback /\ stderr_callback # NoCallback
FairSpec == FairInit /\ [][Next]_vars /\ WF_vars(Execute) /\ WF_vars(WaitForProcess)

----------------------------------------------------------------------------
\* Two runs side by side.  A line is the pair of the child that wrote it
\* and its number among that child's lines.

\* A faulty variant of Construct: out_queue = Queue() and _stdout_buffer = [] as
\* class attributes, the one object of each for every instance.
ConstructShared(r) ==
    /\ r \notin DOMAIN instances
    /\ instances' = (r :> [pc |-> "created", out_queue |-> 1, stdout_buffer |-> 1,
                           proc |-> 0]) @@ instances
    /\ queues' = IF queues = <<>> THEN <<<<>>>> ELSE queues
    /\ lists' = IF lists = <<>> THEN <<<<>>>> ELSE lists
    /\ UNCHANGED <<single, children, got, results>>

\* subpiper(): _SubPiper(...), whose __init__ makes a new list and a new Queue
\* and sets self.proc = None.
Construct(r) ==
    /\ r \notin DOMAIN instances
    /\ instances' = (r :> [pc |-> "created", out_queue |-> Fresh(queues),
                           stdout_buffer |-> Fresh(lists), proc |-> 0]) @@ instances
    /\ queues' = Append(queues, <<>>)
    /\ lists' = Append(lists, <<>>)
    /\ UNCHANGED <<single, children, got, results>>

\* execute(): self.proc = subprocess.Popen(...), a new child process; the
\* listener and the supervisory loop are started.
RunPopen(r) ==
    /\ Inst(r).pc = "created"
    /\ instances' = [instances EXCEPT ![r].pc = "running", ![r].proc = Fresh(children)]
    /\ children' = Append(children, [NoChild EXCEPT !.state = "running"])
    /\ UNCHANGED <<single, queues, lists, got, results>>

\* A child writes a line to its stdout pipe.
ChildWrites(c) ==
    /\ children[c].state = "running"
    /\ children[c].count < MaxLines
    /\ children' = [children EXCEPT
          ![c].count = @ + 1,
          ![c].pipe = Append(@, [child |-> c, n |-> children[c].count + 1])]
    /\ UNCHANGED <<single, instances, queues, lists, got, results>>

\* A child exits.
ChildExits(c, code) ==
    /\ children[c].state = "running"
    /\ children' = [children EXCEPT ![c].state = "exited", ![c].code = <<code>>]
    /\ UNCHANGED <<single, instances, queues, lists, got, results>>

\* _enqueue_lines(self.proc.stdout, self.out_queue): the listener of a run
\* reads a line of its child's pipe and puts it on its queue.
RunEnqueue(r) ==
    /\ Inst(r).pc = "running"
    /\ LET c == instances[r].proc
       IN /\ children[c].pipe # <<>>
          /\ queues' = [queues EXCEPT ![instances[r].out_queue] =
                           Append(@, Head(children[c].pipe))]
          /\ children' = [children EXCEPT ![c].pipe = Tail(@)]
    /\ UNCHANGED <<single, instances, lists, got, results>>

\* _handle_lines: self.out_queue.get_nowait(), self._stdout_buffer.append(oline),
\* self.stdout_callback(oline).
RunHandle(r) ==
    /\ Inst(r).pc = "running"
    /\ LET q == instances[r].out_queue
       IN /\ queues[q] # <<>>
          /\ queues' = [queues EXCEPT ![q] = Tail(@)]
          /\ lists' = [lists EXCEPT ![instances[r].stdout_buffer] =
                          Append(@, Head(queues[q]))]
          /\ got' = (r :> Append(Got(r), Head(queues[q]))) @@ got
    /\ UNCHANGED <<single, instances, children, results>>

\* _wait_for_process: self.proc.poll() gives the exit code; execute() returns
\* retcode and self._stdout_buffer.
RunReturn(r) ==
    /\ Inst(r).pc = "running"
    /\ children[instances[r].proc].state = "exited"
    /\ instances' = [instances EXCEPT ![r].pc = "returned"]
    /\ results' = (r :> [kind |-> "tuple", retcode |-> children[instances[r].proc].code,
                         out |-> lists[instances[r].stdout_buffer]]) @@ results
    /\ UNCHANGED <<single, queues, lists, children, got>>

TwoRunInit ==
    /\ Init
    /\ cmd.val # <<>>
    /\ stdout_callback # NoCallback
    /\ stderr_callback # NoCallback
    /\ finished_callback = NoCallback

TwoRunNext ==
    \/ \E r \in Runs : Construct(r)
    \/ \E r \in Runs : RunPopen(r)
    \/ \E c \in DOMAIN children : ChildWrites(c)
    \/ \E c \in DOMAIN children, code \in ExitCodes : ChildExits(c, code)
    \/ \E r \in Runs : RunEnqueue(r)
    \/ \E r \in Runs : RunHandle(r)
    \/ \E r \in Runs : RunReturn(r)

TwoRunSpec == TwoRunInit /\ [][TwoRunNext]_vars

----------------------------------------------------------------------------
\* The run is finished: subpiper has returned in a blocking call, the
\* finished_callback has been called in a non-blocking one.
RunFinished ==
    IF BlockingMode THEN caller_pc = "returned" ELSE finished_calls # <<>>

\* The lines passed to a stream's callback so far, and the child's lines
\* without their terminator.
CallTexts(s) == [i \in 1..Len(calls[s]) |-> calls[s][i].text]
StripTerminator(l) == SubSeq(l, 1, Len(l) - 1)
WrittenTexts(s) == [i \in 1..Len(written[s]) |-> StripTerminator(written[s][i])]
Dispatched(s, i) == \E k \in 1..Len(calls[s]) : calls[s][k].idx = i

\* C1: when the run is finished, each line callback has been called once for
\* every line the child wrote to its stream, with the line's exact content
\* without the terminator, in the order written.
C1_EveryLineDelivered ==
    RunFinished =>
        \A s \in Streams : callback(s) # NoCallback => CallTexts(s) = WrittenTexts(s)

\* C2: the supervisory loop leaves its drain phase only when the exit status
\* has been observed and no line is waiting in either queue.
C2_FinishOnlyWhenDrained ==
    [][(sup_pc # "finish" /\ sup_pc' = "finish") =>
          (retcode # NoneCode /\ ~any(queue["out"]) /\ ~any(queue["err"]))]_vars

\* C3: a line the child wrote before exiting that the listener had not yet put
\* on the queue when poll() gave the exit status has been passed to its
\* callback when the run is finished (stated for lines that are not blank).
C3_LateLinesDispatched ==
    RunFinished =>
        \A s \in Streams : callback(s) # NoCallback =>
            \A i \in (enqueued_at_exit[s] + 1)..Len(written[s]) :
                rstrip(written[s][i]) # <<>> => Dispatched(s, i)

\* C4: in blocking mode each buffer equals, at every moment, the sequence of
\* lines passed so far to the stream's callback, and so do the returned lists.
C4_BuffersEqualCalls ==
    BlockingMode =>
        \A s \in Streams : callback(s) # NoCallback =>
            /\ buffer[s] = CallTexts(s)
            /\ caller_pc = "returned" =>
                  /\ result.kind = "tuple"
                  /\ (IF s = "out" THEN result.out ELSE result.err) = CallTexts(s)

C4_Witness ==
    /\ BlockingMode
    /\ caller_pc = "returned"
    /\ stdout_callback # NoCallback /\ stderr_callback # NoCallback
    /\ Len(result.out) = 1 /\ Len(result.err) = 1

\* C5: the exit code returned by a blocking call, and the one passed to
\* finished_callback, is the child's exit code, zero or not, and a blocking
\* call returns it as a result.
C5_ExitCodeDelivered ==
    /\ (BlockingMode /\ caller_pc = "returned") =>
          (result.kind = "tuple" /\ result.retcode = exit_status)
    /\ \A k \in 1..Len(finished_calls) :
          /\ proc = "exited"
          /\ finished_calls[k].retcode = exit_status

C5_Witness ==
    /\ BlockingMode
    /\ caller_pc = "returned"
    /\ result.retcode = <<1>>

\* C6: in non-blocking mode finished_callback is never called twice, and once
\* the child has exited it is eventually called.
C6_FinishedExactlyOnce ==
    /\ [](~BlockingMode => Len(finished_calls) <= 1)
    /\ (~BlockingMode /\ proc = "exited") ~> (Len(finished_calls) = 1)

C6_Witness ==
    /\ ~BlockingMode
    /\ sup_pc = "done"
    /\ Len(finished_calls) = 1
    /\ finished_calls[1].retcode = <<1>>

\* C7: in non-blocking mode execute() can return whatever the child is doing,
\* it returns None, and the line callbacks and finished_callback are called
\* by the wait thread only.
C7_ReturnsWithoutWaiting ==
    ~BlockingMode =>
        /\ caller_pc = "listening" => ENABLED ReturnNonBlocking
        /\ caller_pc = "returned" => result.kind = "None"
        /\ \A s \in Streams : \A k \in 1..Len(calls[s]) :
              calls[s][k].thread = "wait_thread"
        /\ \A k \in 1..Len(finished_calls) : finished_calls[k].thread = "wait_thread"
        /\ \A c \in in_progress : c.thread = "wait_thread"

C7_Witness ==
    /\ ~BlockingMode
    /\ caller_pc = "returned"
    /\ proc = "running"
    /\ Len(written["out"]) = 2
    /\ Len(calls["out"]) = 1

\* C8: when Popen fails the failure is raised to the caller, in both modes,
\* and no listener, no supervisory loop and no callback ever runs.
C8_SpawnFailureRaised ==
    proc = "failed" =>
        /\ caller_pc = "raised"
        /\ result.kind = "raise"
        /\ \A s \in Streams :
              listener[s] = "unstarted" /\ calls[s] = <<>> /\ printed[s] = <<>>
        /\ sup_thread = "none"
        /\ sup_pc = "idle"
        /\ finished_calls = <<>>
        /\ in_progress = {}

C8_Witness == caller_pc = "raised" /\ ~BlockingMode

\* C9: at most one user callback is executing at any moment, and it was
\* called by the thread of the supervisory loop, never by a listener.
C9_CallbacksNeverConcurrent ==
    /\ Cardinality(in_progress) <= 1
    /\ \A c \in in_progress : c.thread = sup_thread
    /\ \A s \in Streams : \A k \in 1..Len(calls[s]) : calls[s][k].thread = sup_thread

C9_Witness ==
    /\ in_progress = {[cb |-> "stdout_callback", thread |-> sup_thread]}
    /\ listener["err"] = "reading"
    /\ read_count["err"] < Len(written["err"])

\* C10: within a stream, the lines passed to the callback are lines the
\* listener put on the queue, each at most once and in the order it put them.
C10_NoDuplicateNoReorder ==
    \A s \in Streams :
        /\ \A k \in 1..Len(calls[s]) :
              /\ calls[s][k].idx \in 1..read_count[s]
              /\ calls[s][k].text = rstrip(written[s][calls[s][k].idx])
        /\ \A j, k \in 1..Len(calls[s]) : j < k => calls[s][j].idx < calls[s][k].idx

C10_Witness == \E s \in Streams : Len(calls[s]) = 2

\* os.pathsep, and the PATH that add_path_list asks for: its entries in
\* argument order, each followed by os.pathsep, then the caller's PATH.
PathSep == IF platform = "Windows" THEN ";" ELSE ":"
RECURSIVE ExpectedPath(_)
ExpectedPath(list) ==
    IF list = <<>> THEN OriginalPath
    ELSE <<Head(list), PathSep>> \o ExpectedPath(Tail(list))

\* C11: the PATH given to the child is the entries of add_path_list in
\* argument order, each followed by the platform's path-list separator,
\* followed by the caller's PATH.
C11_PathInArgumentOrder ==
    proc = "running" => local_env = ExpectedPath(add_path_list)

\* No child was spawned and no thread was started.
NothingStarted ==
    /\ proc \in {"none", "failed"}
    /\ \A s \in Streams : listener[s] = "unstarted"
    /\ sup_thread = "none"

\* C13 as claimed: an empty command fails with InvalidCommand before any
\* child is spawned and any thread is started.
C13_InvalidCommandRaised ==
    cmd.val = <<>> =>
        /\ NothingStarted
        /\ caller_pc # "created" =>
              (caller_pc = "raised" /\ result.error = "InvalidCommand")

\* C13 as amended: an empty command fails with the exception Popen raises for
\* it, PermissionError for '' and IndexError for [], before any child is
\* spawned and any thread is started.
C13_EmptyCommandRaises ==
    cmd.val = <<>> =>
        /\ NothingStarted
        /\ caller_pc # "created" =>
              /\ caller_pc = "raised"
              /\ result.kind = "raise"
              /\ cmd = EmptyStr => result.error = "PermissionError"
              /\ cmd = EmptyList => result.error = "IndexError"

C13_Witness == cmd = EmptyList /\ caller_pc = "raised" /\ BlockingMode

\* The state of the run: 0 Created, 1 Spawned, 2 Running (the outer loop of
\* _wait_for_process), 3 Exited-Draining (its inner loop), 4 Finished (the
\* loops are left).
Phase ==
    IF sup_thread = "none"
    THEN IF proc \in {"none", "failed"} THEN 0 ELSE 1
    ELSE IF sup_pc \in {"finish", "finished_callback", "done"} THEN 4
    ELSE IF sup_pc \in {"sleep", "check_out_empty", "check_err_empty",
                        "check_out_any", "check_err_any"}
            \/ retcode # NoneCode THEN 3
    ELSE 2

\* No line has been handled: nothing buffered, passed to a callback or printed.
NothingDispatched ==
    \A s \in Streams : buffer[s] = <<>> /\ calls[s] = <<>> /\ printed[s] = <<>>

\* C14: a run goes through Created, Spawned, Running, Exited-Draining and
\* Finished in that order, one state at a time and never back; no line is
\* dispatched before the loop runs on a spawned child, and the drain phase is
\* entered only with the exit status of the exited child polled.
C14_PhasesInOrder ==
    [][/\ Phase' = Phase \/ Phase' = Phase + 1
       /\ Phase' < 2 => NothingDispatched'
       /\ Phase' >= 2 => proc' # "none" /\ proc' # "failed"
       /\ Phase' = 3 => proc' = "exited" /\ retcode' = exit_status'
                        /\ retcode' # NoneCode]_vars

C14_Witness ==
    /\ Phase = 4
    /\ sup_pc = "done"
    /\ Len(buffer["out"]) = 1
    /\ retcode = <<1>>

\* C15: a listener puts nothing on its queue after the last line of its pipe:
\* the items it has put are never more than the lines the child wrote.
C15_ListenerStopsAtEof ==
    \A s \in Streams : read_count[s] + eof_puts[s] <= Len(written[s])

\* C16: in a blocking call, once the child has exited, execute() eventually
\* returns its tuple, whatever the listeners still put on the queues.
C16_BlockingReturns ==
    (BlockingMode /\ proc = "exited") ~> (caller_pc = "returned" /\ result.kind = "tuple")

C16_Witness ==
    /\ BlockingMode
    /\ caller_pc = "returned"
    /\ result.kind = "tuple"
    /\ eof_puts["out"] = 1
    /\ Len(written["out"]) = 1
    /\ Len(written["err"]) = 1

\* C17: in a non-blocking call, once finished_callback has been called, no
\* step calls stdout_callback or stderr_callback any more.
C17_NoLineAfterFinished ==
    [][(~BlockingMode /\ finished_calls # <<>>) => calls' = calls]_vars

C17_Witness ==
    /\ ~BlockingMode
    /\ finished_calls # <<>>
    /\ Len(calls["out"]) = 1
    /\ Len(calls["err"]) = 1
    /\ \E s \in Streams : queue[s] # <<>>

\* The non-empty lines the loop has taken from a stream's queue and not yet
\* buffered: those the listener has put, less those still queued, less those
\* in the buffer.
TruthyPut(s) == Cardinality({i \in 1..read_count[s] : rstrip(written[s][i]) # <<>>})
TruthyIn(q) == Cardinality({i \in 1..Len(q) : Truthy(q[i])})
Unhandled(s) == TruthyPut(s) - TruthyIn(queue[s]) - Len(buffer[s])

\* C18 as claimed: whenever the loop removes an item from either queue, every
\* line it removed earlier, from either queue, is buffered and its callback
\* has returned.
C18_OneLineFullyHandled ==
    [][\A s \in Streams :
          Len(queue'[s]) < Len(queue[s]) =>
              /\ \A u \in Streams : Unhandled(u) = 0
              /\ in_progress = {}]_vars

\* C18 as amended: a pass of _handle_lines takes at most one item from the
\* stdout queue and then at most one from the stderr queue, and handles both
\* before the next pass: the stdout get finds every earlier line handled, the
\* stderr get finds at most the stdout line of its own pass not handled.
C18_OnePassFullyHandled ==
    /\ sup_pc \in {"out_empty", "out_get"} =>
          (\A u \in Streams : Unhandled(u) = 0) /\ in_progress = {}
    /\ sup_pc \in {"err_empty", "err_get"} =>
          /\ Unhandled("err") = 0
          /\ Unhandled("out") = (IF Truthy(oeline["out"]) THEN 1 ELSE 0)
          /\ in_progress = {}

C18_Witness ==
    /\ sup_pc = "err_get"
    /\ Unhandled("out") = 1
    /\ queue["err"] # <<>>
    /\ Truthy(Head(queue["err"]))

\* C19: the loop never waits for a queue or for the child: while it runs, its
\* next step can always be taken, whatever the queues hold and whether or not
\* the child has exited; and a get_nowait() that follows the emptiness test
\* never finds its queue empty, so Empty is never raised.
C19_NeverBlocksNeverEmpty ==
    /\ sup_pc # "raised_empty"
    /\ \A s \in Streams : sup_pc = PcGet(s) => queue[s] # <<>>
    /\ (sup_thread # "none" /\ sup_pc # "done") => ENABLED WaitForProcess

C19_Witness ==
    /\ sup_pc = "err_get"
    /\ Len(queue["err"]) = 2
    /\ queue["out"] = <<>>
    /\ proc = "running"

\* C20: every line handled goes to the buffer of its stream and to one sink:
\* to the callback of the stream when there is one, silent or not; else to
\* the standard stream when silent is False; else nowhere.
C20_ExactlyOneSink ==
    \A s \in Streams :
        /\ callback(s) # NoCallback =>
              CallTexts(s) = buffer[s] /\ printed[s] = <<>>
        /\ (callback(s) = NoCallback /\ ~silent) =>
              printed[s] = buffer[s] /\ calls[s] = <<>>
        /\ (callback(s) = NoCallback /\ silent) =>
              printed[s] = <<>> /\ calls[s] = <<>>
        /\ sup_pc \in {"poll", "check_out_empty"} =>
              Len(buffer[s]) = TruthyPut(s) - TruthyIn(queue[s])

C20_Witness ==
    /\ stdout_callback # NoCallback
    /\ stderr_callback = NoCallback
    /\ silent
    /\ Len(calls["out"]) = 1
    /\ Len(buffer["err"]) = 1
    /\ sup_pc = "check_out_empty"

\* What a run can see and what its caller gets: its instance, the objects the
\* instance refers to, its child, its callback's calls and its result.
View(r) ==
    <<Inst(r), Got(r), Result(r),
      IF Inst(r).out_queue = 0 THEN <<>> ELSE queues[Inst(r).out_queue],
      IF Inst(r).stdout_buffer = 0 THEN <<>> ELSE lists[Inst(r).stdout_buffer],
      IF Inst(r).proc = 0 THEN NoChild ELSE children[Inst(r).proc]>>

\* The first lines of a child, in the order written.
OwnLines(c, n) == [i \in 1..n |-> [child |-> c, n |-> i]]

\* Two instances hold different queue, buffer and process objects.
NothingShared ==
    \A r \in DOMAIN instances : \A q \in DOMAIN instances \ {r} :
        /\ instances[r].out_queue # instances[q].out_queue
        /\ instances[r].stdout_buffer # instances[q].stdout_buffer
        /\ instances[r].proc # 0 /\ instances[q].proc # 0 =>
              instances[r].proc # instances[q].proc

\* What a run has delivered is lines of its own child, from the first on, and
\* its result holds the exit code of its own child.
OwnOutputOnly ==
    \A r \in DOMAIN instances :
        /\ Got(r) = OwnLines(instances[r].proc, Len(Got(r)))
        /\ lists[instances[r].stdout_buffer] = Got(r)
        /\ Result(r).kind = "tuple" =>
              /\ Result(r).out = OwnLines(instances[r].proc, Len(Result(r).out))
              /\ Result(r).retcode = children[instances[r].proc].code

\* C12: two runs that execute side by side share no queue, buffer or process
\* handle; the lines and the exit code of a run's child go to that run's
\* callback, buffer and result only; and no step of one run, of its threads
\* or of its child changes anything the other run can see.
C12_RunsShareNothing ==
    /\ [](NothingShared /\ OwnOutputOnly)
    /\ [][\E r \in Runs : \A q \in Runs \ {r} : View(q)' = View(q)]_vars

\* Run 1 was constructed first and spawned second, both have returned, each
\* with the lines and the exit code of its own child.
C12_Witness ==
    /\ Inst(1).out_queue = 1 /\ Inst(1).proc = 2
    /\ Inst(2).out_queue = 2 /\ Inst(2).proc = 1
    /\ Result(1).kind = "tuple" /\ Result(2).kind = "tuple"
    /\ Result(1).retcode = <<0>> /\ Result(2).retcode = <<1>>
    /\ Len(Result(1).out) = MaxLines /\ Len(Result(2).out) = 1

\* The items the loop has taken from a stream's queue, in order: the listener
\* puts the child's lines, stripped, and after them empty strs.
Removed(s) == read_count[s] + eof_puts[s] - Len(queue[s])
RemovedTexts(s) ==
    [i \in 1..Removed(s) |-> IF i <= read_count[s] THEN rstrip(written[s][i]) ELSE <<>>]
NonEmpty(text) == text # <<>>

\* C21: an item that is the empty str leaves the queue without being buffered
\* and without a callback or a print; every non-empty item taken from the
\* queue is buffered and goes to the stream's sink.  Stated where a pass of
\* _handle_lines starts and where the loop is left: the buffer holds the
\* non-empty items taken so far, and so does the sink.
C21_BlankItemsDropped ==
    sup_pc \in {"out_empty", "finish"} =>
        \A s \in Streams :
            LET taken == SelectSeq(RemovedTexts(s), NonEmpty)
            IN /\ buffer[s] = taken
               /\ callback(s) # NoCallback => CallTexts(s) = taken
               /\ (callback(s) = NoCallback /\ ~silent) => printed[s] = taken
               /\ Len(calls[s]) + Len(printed[s]) <= Len(taken)

C21_Witness ==
    /\ sup_pc = "finish"
    /\ read_count["out"] = 2
    /\ Removed("out") = 2
    /\ rstrip(written["out"][1]) = <<>>
    /\ buffer["out"] = <<<<"x">>>>
    /\ Len(calls["out"]) = 1

====
